---------------------------- MODULE Spec2Model ----------------------------
(***************************************************************************)
(* A model of rdns, a recursive DNS resolver: the packet helpers of        *)
(* dnsparse/src/types.rs, the encoder of dnsparse/src/writer.rs, the       *)
(* recursive engine of src/lib.rs and the server loop of src/main.rs.      *)
(*                                                                         *)
(* Domain names are Rust strings; they are modelled as the sequence of     *)
(* their UTF-8 octets (46 is '.'), so that str::ends_with, str::split and  *)
(* str::len are computed as the code computes them.                        *)
(***************************************************************************)
EXTENDS Integers, Sequences, FiniteSets, TLC

(***************************************************************************)
(* Option<T> and anyhow::Result<T>.                                        *)
(***************************************************************************)
None == <<>>
Some(x) == <<x>>
IsSome(o) == o # <<>>
Unwrap(o) == o[1]

Ok(v) == [ok |-> TRUE, val |-> v]
Err(e) == [ok |-> FALSE, err |-> e]

(***************************************************************************)
(* Program constants.                                                      *)
(***************************************************************************)
\* the size of the buffer BytePacketBuffer::write writes into
BUFFER_SIZE == 512
DNS_PORT == 53
ROOT_DNS_SERVER == [ip |-> <<198, 41, 0, 4>>, port |-> DNS_PORT]
MAX_LABEL_LEN == 63

(***************************************************************************)
(* Bounds of the model.                                                    *)
(***************************************************************************)
\* The deepest nesting of recursive_lookup calls that is explored.
MaxDepth == 2
\* The number of records of the largest upstream answer that is explored.
BigAnswerLen == 27

(***************************************************************************)
(* types.rs: ResponseCode, QueryType, DnsHeader, DnsQuestion, DnsRecord,   *)
(* DnsPacket.                                                              *)
(***************************************************************************)
ResponseCodeNum(rc) ==
    CASE rc = "NOERROR"  -> 0
      [] rc = "FORMERR"  -> 1
      [] rc = "SERVFAIL" -> 2
      [] rc = "NXDOMAIN" -> 3
      [] rc = "NOTIMP"   -> 4
      [] rc = "REFUSED"  -> 5

\* QueryType::to_num; UNKNOWN(x) is modelled as [unknown |-> x]
QueryTypeToNum(qt) ==
    CASE qt = "A"     -> 1
      [] qt = "CNAME" -> 5
      [] qt = "NS"    -> 2
      [] qt = "MX"    -> 15
      [] qt = "AAAA"  -> 28
      [] OTHER        -> qt.unknown

\* DnsHeader::builder().id(id).build(): every other field at its default
DnsHeaderBuilder(id) ==
    [id |-> id,
     response |-> FALSE,
     opcode |-> 0,
     authoritative_answer |-> FALSE,
     truncated_message |-> FALSE,
     recursion_desired |-> FALSE,
     recursion_available |-> FALSE,
     z |-> FALSE,
     authed_data |-> FALSE,
     checking_disabled |-> FALSE,
     rescode |-> "NOERROR",
     questions |-> 0,
     answers |-> 0,
     authoritative_entries |-> 0,
     resource_entries |-> 0]

\* DnsPacket::builder().header(h).build(): every section empty by default
DnsPacketBuilder(h) ==
    [header |-> h, questions |-> <<>>, answers |-> <<>>,
     authorities |-> <<>>, resources |-> <<>>]

DnsQuestion(name, qtype) == [name |-> name, qtype |-> qtype]

RecA(domain, addr, ttl) == [t |-> "A", domain |-> domain, addr |-> addr, ttl |-> ttl]
RecNS(domain, host, ttl) == [t |-> "NS", domain |-> domain, host |-> host, ttl |-> ttl]
RecCNAME(domain, host, ttl) == [t |-> "CNAME", domain |-> domain, host |-> host, ttl |-> ttl]
RecMX(domain, priority, host, ttl) ==
    [t |-> "MX", domain |-> domain, priority |-> priority, host |-> host, ttl |-> ttl]
RecAAAA(domain, addr, ttl) == [t |-> "AAAA", domain |-> domain, addr |-> addr, ttl |-> ttl]
RecUNKNOWN(domain, qtype, data_len, ttl) ==
    [t |-> "UNKNOWN", domain |-> domain, qtype |-> qtype, data_len |-> data_len, ttl |-> ttl]

(***************************************************************************)
(* types.rs: the packet helpers.                                           *)
(***************************************************************************)
first_question(p) == IF Len(p.questions) > 0 THEN Some(p.questions[1]) ELSE None

has_answers(p) == Len(p.answers) > 0

rescode(p) == p.header.rescode

qtype(p) == IF IsSome(first_question(p)) THEN Some(Unwrap(first_question(p)).qtype) ELSE None

qname(p) == IF IsSome(first_question(p)) THEN Some(Unwrap(first_question(p)).name) ELSE None

\* str::ends_with: s ends with the octets of suffix
ends_with(s, suffix) ==
    /\ Len(suffix) <= Len(s)
    /\ SubSeq(s, Len(s) - Len(suffix) + 1, Len(s)) = suffix

\* Iterator::find_map over a section: the first record passing Test, if any
RECURSIVE FirstIndex(_, _, _)
FirstIndex(s, Test(_), i) ==
    IF i > Len(s) THEN 0
    ELSE IF Test(s[i]) THEN i
    ELSE FirstIndex(s, Test, i + 1)

get_random_a(p) ==
    LET i == FirstIndex(p.answers, LAMBDA r : r.t = "A", 1)
    IN  IF i = 0 THEN None ELSE Some(p.answers[i].addr)

\* the (domain, host) pairs of the authority NS records, in authority order
get_ns(p) == SelectSeq(p.authorities, LAMBDA r : r.t = "NS")

get_ns_for(p, name) == SelectSeq(get_ns(p), LAMBDA r : ends_with(name, r.domain))

\* the additional records of either address type owned by host
GlueFor_anyAddress(p, host) ==
    SelectSeq(p.resources, LAMBDA r : r.t \in {"A", "AAAA"} /\ r.domain = host)

\* the additional A records owned by host, in additional order
GlueFor(p, host) == SelectSeq(p.resources, LAMBDA r : r.t = "A" /\ r.domain = host)

get_resolved_ns(p, name) ==
    LET nss == get_ns_for(p, name)
        i   == FirstIndex(nss, LAMBDA r : Len(GlueFor(p, r.host)) > 0, 1)
    IN  IF i = 0 THEN None ELSE Some(GlueFor(p, nss[i].host)[1].addr)

get_unresolved_ns(p, name) ==
    LET nss == get_ns_for(p, name)
    IN  IF Len(nss) = 0 THEN None ELSE Some(nss[1].host)

(***************************************************************************)
(* writer.rs: BytePacketBuffer.  The buffer is modelled by the octets      *)
(* written so far (pos = Len(bytes)), by whether a write has failed (after *)
(* a failure the `?` operator skips every later write), and by `hi`, the   *)
(* number of leading octets of buf that some write or set has touched.     *)
(***************************************************************************)
BytePacketBuffer_new == [ok |-> TRUE, bytes |-> <<>>, hi |-> 0]

BufWrite_unchecked(b, val) ==
    IF ~b.ok THEN b
    ELSE [ok |-> TRUE, bytes |-> Append(b.bytes, val),
          hi |-> IF b.hi > Len(b.bytes) THEN b.hi ELSE Len(b.bytes) + 1]

\* BytePacketBuffer::write
BufWrite(b, val) ==
    IF ~b.ok THEN b
    ELSE IF Len(b.bytes) >= BUFFER_SIZE THEN [b EXCEPT !.ok = FALSE]
    ELSE [ok |-> TRUE, bytes |-> Append(b.bytes, val),
          hi |-> IF b.hi > Len(b.bytes) THEN b.hi ELSE Len(b.bytes) + 1]

write_u8(b, val) == BufWrite(b, val)

write_u16(b, val) == BufWrite(BufWrite(b, (val \div 256) % 256), val % 256)

write_u32(b, val) ==
    BufWrite(BufWrite(BufWrite(BufWrite(b,
        (val \div 16777216) % 256), (val \div 65536) % 256), (val \div 256) % 256), val % 256)

RECURSIVE WriteBytes(_, _)
WriteBytes(b, s) ==
    IF ~b.ok \/ Len(s) = 0 THEN b ELSE WriteBytes(write_u8(b, Head(s)), Tail(s))

\* str::split('.'): the segments between dots; the empty string has one,
\* empty, segment
RECURSIVE Split(_)
Split(s) ==
    LET i == FirstIndex(s, LAMBDA c : c = 46, 1)
    IN  IF i = 0 THEN <<s>>
        ELSE <<SubSeq(s, 1, i - 1)>> \o Split(SubSeq(s, i + 1, Len(s)))

RECURSIVE WriteLabels(_, _)
WriteLabels(b, labels) ==
    IF ~b.ok \/ Len(labels) = 0 THEN b
    ELSE LET label == Head(labels)
         IN  IF Len(label) > MAX_LABEL_LEN
             THEN [b EXCEPT !.ok = FALSE]
             ELSE WriteLabels(WriteBytes(write_u8(b, Len(label)), label), Tail(labels))

\* BytePacketBuffer::write_qname
write_qname(b, name) == write_u8(WriteLabels(b, Split(name)), 0)

\* BytePacketBuffer::set: buf[pos] = val, pos being a 0-based offset
set(b, pos, val) ==
    IF ~b.ok THEN b
    ELSE [b EXCEPT !.bytes[pos + 1] = val, !.hi = IF b.hi > pos THEN b.hi ELSE pos + 1]

\* BytePacketBuffer::set_u16
set_u16(b, pos, val) == set(set(b, pos, (val \div 256) % 256), pos + 1, val % 256)

flags_z_for_ad(h) ==
    LET bit(x) == IF x THEN 1 ELSE 0
    IN  ResponseCodeNum(h.rescode)
        + bit(h.checking_disabled) * 16
        + bit(h.z) * 32
        + bit(h.authed_data) * 64
        + bit(h.recursion_available) * 128
        + bit(h.recursion_desired) * 256
        + bit(h.truncated_message) * 512
        + bit(h.authoritative_answer) * 1024
        + (h.opcode % 16) * 2048
        + bit(h.response) * 32768

\* DnsHeader::flags
flags(h) ==
    LET bit(x) == IF x THEN 1 ELSE 0
    IN  ResponseCodeNum(h.rescode)
        + bit(h.checking_disabled) * 16
        + bit(h.authed_data) * 32
        + bit(h.z) * 64
        + bit(h.recursion_available) * 128
        + bit(h.recursion_desired) * 256
        + bit(h.truncated_message) * 512
        + bit(h.authoritative_answer) * 1024
        + (h.opcode % 16) * 2048
        + bit(h.response \/ (h.opcode \div 16) % 2 = 1) * 32768

write_header(h, b) ==
    write_u16(write_u16(write_u16(write_u16(write_u16(write_u16(b,
        h.id), flags(h)), h.questions), h.answers),
        h.authoritative_entries), h.resource_entries)

write_question(q, b) ==
    write_u16(write_u16(write_qname(b, q.name), QueryTypeToNum(q.qtype)), 1)

\* name, TYPE, CLASS = 1, TTL: the start of every record that is written
WritePreamble(b, domain, qt, ttl) ==
    write_u32(write_u16(write_u16(write_qname(b, domain), QueryTypeToNum(qt)), 1), ttl)

\* the back-patch of RDLENGTH: pos is where the two reserved octets are
BackPatch(b, pos) == set_u16(b, pos, Len(b.bytes) - (pos + 2))

write_record(r, b) ==
    CASE r.t = "A" ->
           WriteBytes(write_u16(WritePreamble(b, r.domain, "A", r.ttl), 4), r.addr)
      [] r.t = "NS" ->
           LET pre == WritePreamble(b, r.domain, "NS", r.ttl)
           IN  BackPatch(write_qname(write_u16(pre, 0), r.host), Len(pre.bytes))
      [] r.t = "CNAME" ->
           LET pre == WritePreamble(b, r.domain, "CNAME", r.ttl)
           IN  BackPatch(write_qname(write_u16(pre, 0), r.host), Len(pre.bytes))
      [] r.t = "MX" ->
           LET pre == WritePreamble(b, r.domain, "MX", r.ttl)
           IN  BackPatch(write_qname(write_u16(write_u16(pre, 0), r.priority), r.host),
                         Len(pre.bytes))
      [] r.t = "AAAA" ->
           LET RECURSIVE Segments(_, _)
               Segments(bb, s) ==
                   IF ~bb.ok \/ Len(s) = 0 THEN bb ELSE Segments(write_u16(bb, Head(s)), Tail(s))
           IN  Segments(write_u16(WritePreamble(b, r.domain, "AAAA", r.ttl), 16), r.addr)
      [] r.t = "UNKNOWN" -> b

RECURSIVE WriteQuestions(_, _)
WriteQuestions(b, qs) ==
    IF ~b.ok \/ Len(qs) = 0 THEN b ELSE WriteQuestions(write_question(Head(qs), b), Tail(qs))

RECURSIVE WriteRecords(_, _)
WriteRecords(b, rs) ==
    IF ~b.ok \/ Len(rs) = 0 THEN b ELSE WriteRecords(write_record(Head(rs), b), Tail(rs))

\* writer::write: the buffer when write returns
write(packet) ==
    WriteRecords(WriteRecords(WriteRecords(WriteQuestions(
        write_header(packet.header, BytePacketBuffer_new),
        packet.questions), packet.answers), packet.authorities), packet.resources)

\* writer::write, exported as write_packet: Ok(the octets buf[..pos]) or Err
write_packet(packet) ==
    LET b == write(packet)
    IN  IF b.ok THEN Ok(b.bytes) ELSE Err("End of buffer or label too long")

(***************************************************************************)
(* parser.rs: TryFrom<&[u8]> for DnsPacket, seen from its callers.  A      *)
(* datagram is described by what the parser makes of it: octets that       *)
(* packet() rejects, or the octets of a message, possibly followed by      *)
(* octets that packet() leaves unconsumed.                                 *)
(***************************************************************************)
Malformed == [kind |-> "malformed"]
Wire(p) == [kind |-> "msg", pkt |-> p, trailing |-> FALSE]
WireWithTrailing(p) == [kind |-> "msg", pkt |-> p, trailing |-> TRUE]

try_from(d) ==
    IF d.kind = "malformed" THEN Err("Parsing Error")
    ELSE IF d.trailing THEN Err("Parsing Error: Unable to parse the whole dns packet")
    ELSE Ok(d.pkt)

(***************************************************************************)
(* parser.rs, octet by octet.  A parser takes the octets left (`input`)    *)
(* and gives an IResult: Ok((rest, value)) or Err.  Two more outcomes end  *)
(* the process instead of returning: a panic (an index outside a slice)    *)
(* and the overflow of the stack by a recursion that does not end.         *)
(***************************************************************************)
IOk(rest, val) == [st |-> "ok", rest |-> rest, val |-> val]
IErr == [st |-> "err"]
Panics == [st |-> "panic"]
Overflows == [st |-> "overflow"]
\* the panic of domain_name's last branch (parser.rs lines 112..115)
ImpossibleState == [st |-> "panic", msg |-> "Impossible state reached"]

\* the `?` operator on an IResult: the failure is returned at once, a
\* success goes on with (rest, value)
AndThen(r, Continue(_)) == IF r.st # "ok" THEN r ELSE Continue(r)

\* `let x = value;`
Let(value, In(_)) == In(value)

JUMP_REQUIRED_FLAG == 192
NULL_BYTE == 0

\* nom::number::complete::be_u8, be_u16, be_u32
be_u8(input) ==
    IF Len(input) < 1 THEN IErr ELSE IOk(Tail(input), input[1])

be_u16(input) ==
    IF Len(input) < 2 THEN IErr
    ELSE IOk(SubSeq(input, 3, Len(input)), input[1] * 256 + input[2])

be_u32(input) ==
    IF Len(input) < 4 THEN IErr
    ELSE IOk(SubSeq(input, 5, Len(input)),
             ((input[1] * 256 + input[2]) * 256 + input[3]) * 256 + input[4])

\* nom::bytes::complete::take
take_bytes(n, input) ==
    IF Len(input) < n THEN IErr
    ELSE IOk(SubSeq(input, n + 1, Len(input)), SubSeq(input, 1, n))

\* a scan that takes the octet `stop` as well
take_while_not_through(stop, input) ==
    LET hits == {i \in 1..Len(input) : input[i] = stop}
        n    == IF hits = {} THEN Len(input)
                ELSE CHOOSE i \in hits : \A j \in hits : i <= j
    IN  IOk(SubSeq(input, n + 1, Len(input)), SubSeq(input, 1, n))

\* nom::bytes::complete::take_while(|c| c != stop): the longest prefix
\* without the octet `stop`; it never fails
take_while_not(stop, input) ==
    LET hits == {i \in 1..Len(input) : input[i] = stop}
        n    == IF hits = {} THEN Len(input)
                ELSE (CHOOSE i \in hits : \A j \in hits : i <= j) - 1
    IN  IOk(SubSeq(input, n + 1, Len(input)), SubSeq(input, 1, n))

\* std::cmp::min_by_key(v1, v2, |(_rest, parsed)| parsed.len()): v1 when the
\* keys are equal
min_by_key(v1, v2) == IF Len(v2.val) < Len(v1.val) THEN v2 ELSE v1

\* String::from_utf8_lossy: ASCII octets and well-formed two-octet
\* sequences are kept, any other octet becomes U+FFFD (EF BF BD)
RECURSIVE from_utf8_lossy(_)
from_utf8_lossy(s) ==
    IF Len(s) = 0 THEN <<>>
    ELSE IF s[1] < 128 THEN <<s[1]>> \o from_utf8_lossy(Tail(s))
    ELSE IF s[1] \in 194..223 /\ Len(s) >= 2 /\ s[2] \in 128..191
         THEN <<s[1], s[2]>> \o from_utf8_lossy(SubSeq(s, 3, Len(s)))
    ELSE <<239, 191, 189>> \o from_utf8_lossy(Tail(s))

domain_fragment(input) ==
    AndThen(be_u8(input), LAMBDA size :
    AndThen(take_bytes(size.val, size.rest), LAMBDA name :
    IOk(name.rest, from_utf8_lossy(name.val))))

\* many0(domain_fragment()): the fragments up to the first one that fails
RECURSIVE many0_domain_fragment(_)
many0_domain_fragment(input) ==
    Let(domain_fragment(input), LAMBDA f :
        IF f.st # "ok" THEN <<>> ELSE <<f.val>> \o many0_domain_fragment(f.rest))

\* utils.rs: every fragment prefixed by a dot, then the first character
\* dropped
RECURSIVE DotPrefixed(_)
DotPrefixed(fragments) ==
    IF Len(fragments) = 0 THEN <<>>
    ELSE <<46>> \o Head(fragments) \o DotPrefixed(Tail(fragments))

isperse(fragments) ==
    Let(DotPrefixed(fragments), LAMBDA string :
        IF Len(string) = 0 THEN <<>> ELSE Tail(string))

\* domain_name(original)(input).  `jumps` are the jump locations of the
\* calls that are still active: the call at a jump location depends on
\* nothing but that location, so that meeting one of them again is a
\* recursion without end.
RECURSIVE domain_name(_, _, _)
domain_name(original, input, jumps) ==
    Let(min_by_key(take_while_not(NULL_BYTE, input),
                   take_while_not(JUMP_REQUIRED_FLAG, input)), LAMBDA sel :
    Let(many0_domain_fragment(sel.val), LAMBDA fragments :
    AndThen(be_u8(sel.rest), LAMBDA next :
        IF next.val = JUMP_REQUIRED_FLAG
        THEN AndThen(be_u8(next.rest), LAMBDA jump_location :
                 IF jump_location.val > Len(original) THEN Panics
                 ELSE IF jump_location.val \in jumps THEN Overflows
                 ELSE AndThen(domain_name(original,
                                  SubSeq(original, jump_location.val + 1, Len(original)),
                                  jumps \cup {jump_location.val}), LAMBDA rec :
                      IOk(jump_location.rest, isperse(Append(fragments, rec.val)))))
        ELSE IF next.val = NULL_BYTE THEN IOk(next.rest, isperse(fragments))
        ELSE ImpossibleState)))

\* ResponseCode::from_num
ResponseCodeFromNum(num) ==
    CASE num = 1 -> "FORMERR"
      [] num = 2 -> "SERVFAIL"
      [] num = 3 -> "NXDOMAIN"
      [] num = 4 -> "NOTIMP"
      [] num = 5 -> "REFUSED"
      [] OTHER   -> "NOERROR"

\* QueryType::from_num
QueryTypeFromNum(num) ==
    CASE num = 1  -> "A"
      [] num = 2  -> "NS"
      [] num = 5  -> "CNAME"
      [] num = 15 -> "MX"
      [] num = 28 -> "AAAA"
      [] OTHER    -> [unknown |-> num]

\* the bit n of an octet
Bit(x, n) == (x \div (2 ^ n)) % 2 = 1

\* header(): the twelve octets of the header
header(input) ==
    AndThen(be_u16(input), LAMBDA id :
    AndThen(be_u8(id.rest), LAMBDA a :
    AndThen(be_u8(a.rest), LAMBDA b :
    AndThen(be_u16(b.rest), LAMBDA questions :
    AndThen(be_u16(questions.rest), LAMBDA answers :
    AndThen(be_u16(answers.rest), LAMBDA authoritative_entries :
    AndThen(be_u16(authoritative_entries.rest), LAMBDA resource_entries :
    IOk(resource_entries.rest,
        [id |-> id.val,
         response |-> Bit(a.val, 7),
         opcode |-> (a.val \div 8) % 16,
         authoritative_answer |-> Bit(a.val, 2),
         truncated_message |-> Bit(a.val, 1),
         recursion_desired |-> Bit(a.val, 0),
         recursion_available |-> Bit(b.val, 7),
         z |-> Bit(b.val, 6),
         authed_data |-> Bit(b.val, 5),
         checking_disabled |-> Bit(b.val, 4),
         rescode |-> ResponseCodeFromNum(b.val % 16),
         questions |-> questions.val,
         answers |-> answers.val,
         authoritative_entries |-> authoritative_entries.val,
         resource_entries |-> resource_entries.val]))))))))

question(original, input) ==
    AndThen(domain_name(original, input, {}), LAMBDA domain :
    AndThen(be_u16(domain.rest), LAMBDA qt :
    AndThen(be_u16(qt.rest), LAMBDA qclass :
    IOk(qclass.rest, DnsQuestion(domain.val, QueryTypeFromNum(qt.val))))))

ipv4(input) ==
    IF Len(input) < 4 THEN IErr
    ELSE IOk(SubSeq(input, 5, Len(input)), SubSeq(input, 1, 4))

ipv6(input) ==
    IF Len(input) < 16 THEN IErr
    ELSE IOk(SubSeq(input, 17, Len(input)),
             [i \in 1..8 |-> input[2 * i - 1] * 256 + input[2 * i]])

\* answer(): the match on the record type, applied to the RDATA octets
RecordOf(original, domain, qnum, ttl, data_len, record_bytes) ==
    Let(QueryTypeFromNum(qnum), LAMBDA qt :
        CASE qt = "A" ->
               AndThen(ipv4(record_bytes), LAMBDA addr :
               IOk(<<>>, RecA(domain, addr.val, ttl)))
          [] qt = "CNAME" ->
               AndThen(domain_name(original, record_bytes, {}), LAMBDA host :
               IOk(<<>>, RecCNAME(domain, host.val, ttl)))
          [] qt = "NS" ->
               AndThen(domain_name(original, record_bytes, {}), LAMBDA host :
               IOk(<<>>, RecNS(domain, host.val, ttl)))
          [] qt = "MX" ->
               AndThen(be_u16(record_bytes), LAMBDA priority :
               AndThen(domain_name(original, priority.rest, {}), LAMBDA host :
               IOk(<<>>, RecMX(domain, priority.val, host.val, ttl))))
          [] qt = "AAAA" ->
               AndThen(ipv6(record_bytes), LAMBDA addr :
               IOk(<<>>, RecAAAA(domain, addr.val, ttl)))
          [] OTHER -> IOk(<<>>, RecUNKNOWN(domain, qnum, data_len, ttl)))

answer(original, input) ==
    AndThen(domain_name(original, input, {}), LAMBDA domain :
    AndThen(be_u16(domain.rest), LAMBDA qnum :
    AndThen(be_u16(qnum.rest), LAMBDA qclass :
    AndThen(be_u32(qclass.rest), LAMBDA ttl :
    AndThen(be_u16(ttl.rest), LAMBDA data_len :
    AndThen(take_bytes(data_len.val, data_len.rest), LAMBDA record_bytes :
    AndThen(RecordOf(original, domain.val, qnum.val, ttl.val, data_len.val,
                     record_bytes.val), LAMBDA record :
    IOk(record_bytes.rest, record.val))))))))

RECURSIVE count_lenient(_, _, _, _)
count_lenient(Parser(_, _), n, original, input) ==
    IF n = 0 THEN IOk(input, <<>>)
    ELSE Let(Parser(original, input), LAMBDA first :
             IF first.st # "ok" THEN IOk(input, <<>>)
             ELSE AndThen(count_lenient(Parser, n - 1, original, first.rest), LAMBDA others :
                  IOk(others.rest, <<first.val>> \o others.val)))

\* nom::multi::count(parser, n): n values, or the failure of the first
\* parser that fails
RECURSIVE count(_, _, _, _)
count(Parser(_, _), n, original, input) ==
    IF n = 0 THEN IOk(input, <<>>)
    ELSE AndThen(Parser(original, input), LAMBDA first :
         AndThen(count(Parser, n - 1, original, first.rest), LAMBDA others :
         IOk(others.rest, <<first.val>> \o others.val)))

packet_lenient(input, original) ==
    AndThen(header(input), LAMBDA h :
    AndThen(count_lenient(question, h.val.questions, original, h.rest), LAMBDA questions :
    AndThen(count_lenient(answer, h.val.answers, original, questions.rest), LAMBDA answers :
    AndThen(count_lenient(answer, h.val.authoritative_entries, original, answers.rest),
            LAMBDA authorities :
    AndThen(count_lenient(answer, h.val.resource_entries, original, authorities.rest),
            LAMBDA resources :
    IOk(resources.rest,
        [header |-> h.val, questions |-> questions.val, answers |-> answers.val,
         authorities |-> authorities.val, resources |-> resources.val]))))))

packet(input, original) ==
    AndThen(header(input), LAMBDA h :
    AndThen(count(question, h.val.questions, original, h.rest), LAMBDA questions :
    AndThen(count(answer, h.val.answers, original, questions.rest), LAMBDA answers :
    AndThen(count(answer, h.val.authoritative_entries, original, answers.rest),
            LAMBDA authorities :
    AndThen(count(answer, h.val.resource_entries, original, authorities.rest),
            LAMBDA resources :
    IOk(resources.rest,
        [header |-> h.val, questions |-> questions.val, answers |-> answers.val,
         authorities |-> authorities.val, resources |-> resources.val]))))))

DnsPacket_try_from_lenient(value) ==
    AndThen(packet(value, value), LAMBDA parsed : IOk(<<>>, parsed.val))

\* TryFrom<&[u8]> for DnsPacket, on the octets themselves: Ok, Err, or the
\* end of the process
DnsPacket_try_from(value) ==
    AndThen(packet(value, value), LAMBDA parsed :
        IF parsed.rest = <<>> THEN IOk(<<>>, parsed.val) ELSE IErr)

(***************************************************************************)
(* The inputs that are explored: names, addresses, the messages upstream   *)
(* servers answer with, and the datagrams clients send.                    *)
(***************************************************************************)
NameAC == <<97, 46, 99>>       \* "a.c"
NameC == <<99>>                \* "c"
NameB == <<98>>                \* "b"
NameNC == <<110, 46, 99>>      \* "n.c"
NameMC == <<109, 46, 99>>      \* "m.c"
NameLong == [i \in 1..64 |-> 97]   \* one label of 64 octets

Ip1 == <<10, 0, 0, 1>>
Ip2 == <<10, 0, 0, 2>>
Ip6 == <<8193, 3512, 0, 0, 0, 0, 0, 1>>

\* a decoded upstream message: the parser fills the four counts of the
\* header from the wire, and returns as many entries in each section
Upstream(rc, ans, auth, res) ==
    [header |-> [DnsHeaderBuilder(4660) EXCEPT
                    !.response = TRUE,
                    !.rescode = rc,
                    !.questions = 1,
                    !.answers = Len(ans),
                    !.authoritative_entries = Len(auth),
                    !.resource_entries = Len(res)],
     questions |-> <<DnsQuestion(NameAC, "A")>>,
     answers |-> ans,
     authorities |-> auth,
     resources |-> res]

\* an answer, with authority and additional records besides
RAnswer ==
    Upstream("NOERROR", <<RecCNAME(NameAC, NameNC, 19), RecA(NameNC, Ip2, 20), RecA(NameNC, Ip1, 20)>>,
             <<RecNS(NameC, NameNC, 60)>>, <<RecA(NameNC, Ip1, 60)>>)
\* a name error that also carries an answer, a delegation and glue
RNxFull ==
    Upstream("NXDOMAIN", <<RecA(NameAC, Ip2, 20)>>,
             <<RecNS(NameC, NameNC, 60)>>, <<RecA(NameNC, Ip2, 60)>>)
RNxEmpty == Upstream("NXDOMAIN", <<>>, <<>>, <<>>)
\* a delegation with glue: the first NS is not for the name, the second has
\* no glue, the third has an AAAA and two A records
RGlue ==
    Upstream("NOERROR", <<>>,
             <<RecNS(NameB, NameMC, 60), RecNS(NameC, NameMC, 60), RecNS(<<>>, NameNC, 60)>>,
             <<RecAAAA(NameNC, Ip6, 60), RecA(NameNC, Ip1, 60), RecA(NameNC, Ip2, 60)>>)
\* a delegation without glue
RNoGlue ==
    Upstream("NOERROR", <<>>,
             <<RecNS(NameB, NameMC, 60), RecNS(NameC, NameNC, 60), RecNS(NameC, NameMC, 60)>>,
             <<RecA(NameB, Ip1, 60)>>)
\* neither an answer nor a delegation for the name
RNoNs == Upstream("NOERROR", <<>>, <<RecNS(NameB, NameMC, 60)>>, <<RecA(NameMC, Ip1, 60)>>)
\* answers under a failure code, none of them an A record
RRefused == Upstream("REFUSED", <<RecCNAME(NameAC, NameNC, 19)>>, <<>>, <<>>)
\* an answer that fits 512 octets only with name compression
RBig == Upstream("NOERROR", [i \in 1..BigAnswerLen |-> RecA(NameAC, Ip1, 20)], <<>>, <<>>)

\* a name error with the SOA record of the zone, a type the parser keeps as
\* UNKNOWN
RNxSoa == Upstream("NXDOMAIN", <<>>, <<RecUNKNOWN(NameC, 6, 30, 60)>>, <<>>)

Responses == {RAnswer, RNxFull, RNxEmpty, RGlue, RNoGlue, RNoNs, RRefused, RBig, RNxSoa}

UpstreamDatagrams == {Wire(p) : p \in Responses} \cup {Malformed, WireWithTrailing(RAnswer)}

ClientQuery(id, qs) ==
    [header |-> [DnsHeaderBuilder(id) EXCEPT !.recursion_desired = TRUE, !.questions = Len(qs)],
     questions |-> qs, answers |-> <<>>, authorities |-> <<>>, resources |-> <<>>]

Requests ==
    {ClientQuery(818, <<DnsQuestion(NameAC, "A")>>),
     ClientQuery(7, <<DnsQuestion(NameAC, "MX"), DnsQuestion(NameNC, "A")>>),
     ClientQuery(7, <<>>),
     ClientQuery(9, <<DnsQuestion(NameLong, "A")>>)}

ClientDatagrams ==
    {Wire(p) : p \in Requests}
        \cup {Malformed, WireWithTrailing(ClientQuery(818, <<DnsQuestion(NameAC, "A")>>))}

Clients == {[ip |-> <<127, 0, 0, 1>>, port |-> 40000], [ip |-> <<127, 0, 0, 1>>, port |-> 40001]}

\* rand::random::<u16>()
QueryIds == {0, 65535}

(***************************************************************************)
(* The state: one server process (main.rs), running resolve and the        *)
(* recursive engine (lib.rs) synchronously.                                *)
(***************************************************************************)
VARIABLES
    serverPc,   \* main: "recv" (blocked in recv_from), "resolving" (inside
                \* recursive_lookup), "reply" (resolve has returned), "exited"
    clientNet,  \* Option: the datagram in flight to the server, [src, data]
    request,    \* Option: main's `request`, the decoded client message
    source,     \* Option: main's `source`, where the request came from
    stack,      \* the activations of recursive_lookup, the innermost last
    ret,        \* Option: the Result a recursive_lookup has just returned,
                \* not yet consumed by its caller
    outbox,     \* Option: the upstream query in flight, [dst, data]
    inbox,      \* Option: the upstream datagram in flight to lookup's socket
    response,   \* Option: main's `response`, what resolve returned
    clientOut,  \* Option: the datagram the server sent last, [dst, data]
    codec       \* Option: a call of the dnsparse library from outside the
                \* server (the unit tests of parser.rs and writer.rs), with
                \* its argument and what it has produced so far

vars == <<serverPc, clientNet, request, source, stack, ret, outbox, inbox, response, clientOut,
          codec>>

\* lib.rs, mk_query
mk_query(id, name, qt) ==
    [header |-> [DnsHeaderBuilder(id) EXCEPT !.questions = 1, !.recursion_desired = TRUE],
     questions |-> <<DnsQuestion(name, qt)>>,
     answers |-> <<>>, authorities |-> <<>>, resources |-> <<>>]

\* the names and types the engine can be asked for: those of the first
\* question of a request, and the NS targets of the upstream messages with A
QueryNames ==
    {p.questions[1].name : p \in {q \in Requests : Len(q.questions) > 0}}
        \cup UNION {{p.authorities[i].host :
                        i \in {j \in 1..Len(p.authorities) : p.authorities[j].t = "NS"}} :
                    p \in Responses}
QueryTypes == {p.questions[1].qtype : p \in {q \in Requests : Len(q.questions) > 0}} \cup {"A"}

\* lib.rs lines 108..112: the octets of the query lookup builds, or the
\* error of write_packet, tabulated over the queries that can occur
EncodedQuery ==
    [id \in QueryIds, n \in QueryNames, t \in QueryTypes |-> write_packet(mk_query(id, n, t))]

\* One activation of recursive_lookup: its arguments, its `ns`, where it is
\* ("lookup": about to call lookup, line 65; "recv": blocked in recv_from,
\* line 117; "inner": inside the nested call of line 94) and, while the
\* nested call runs, its `response`.
Frame(name, qt, ns, pc, resp) ==
    [qname |-> name, qtype |-> qt, ns |-> ns, pc |-> pc, response |-> resp]

\* recursive_lookup is entered: ns = ROOT_DNS_SERVER
EnterLookup_sameNs(name, qt, callerNs) == Frame(name, qt, callerNs, "lookup", None)

EnterLookup(name, qt, callerNs) == Frame(name, qt, ROOT_DNS_SERVER, "lookup", None)

Top == stack[Len(stack)]
Pop(st) == SubSeq(st, 1, Len(st) - 1)
ReplaceTop(st, f) == [st EXCEPT ![Len(st)] = f]

\* lines 67 and 72: the two tests that end the walk
IsAnswered_inverted(resp) == ~has_answers(resp) /\ rescode(resp) = "NOERROR"

IsAnswered(resp) == has_answers(resp) /\ rescode(resp) = "NOERROR"

IsNameError_never(resp) == FALSE

IsNameError(resp) == rescode(resp) = "NXDOMAIN"

\* lines 81 and 97: the next server to ask
NextServer(addr) == [ip |-> addr, port |-> DNS_PORT]

\* lines 67..91: what one iteration does with the response of its lookup
Decide_innerFirst(resp, name) ==
    IF IsAnswered(resp) \/ IsNameError(resp) THEN [kind |-> "return"]
    ELSE IF IsSome(get_unresolved_ns(resp, name))
         THEN [kind |-> "inner", host |-> Unwrap(get_unresolved_ns(resp, name))]
    ELSE [kind |-> "return"]

Decide(resp, name) ==
    IF IsAnswered(resp) THEN [kind |-> "return"]
    ELSE IF IsNameError(resp) THEN [kind |-> "return"]
    ELSE IF IsSome(get_resolved_ns(resp, name))
         THEN [kind |-> "continue", ns |-> NextServer(Unwrap(get_resolved_ns(resp, name)))]
    ELSE IF IsSome(get_unresolved_ns(resp, name))
         THEN [kind |-> "inner", host |-> Unwrap(get_unresolved_ns(resp, name))]
    ELSE [kind |-> "return"]

\* lines 94..100: what the outer activation f does with the Ok result of
\* the nested call
AfterInner_returnsInner(f, inner) ==
    IF IsSome(get_random_a(inner))
    THEN [kind |-> "continue", ns |-> NextServer(Unwrap(get_random_a(inner)))]
    ELSE [kind |-> "return", val |-> inner]

AfterInner(f, inner) ==
    IF IsSome(get_random_a(inner))
    THEN [kind |-> "continue", ns |-> NextServer(Unwrap(get_random_a(inner)))]
    ELSE [kind |-> "return", val |-> Unwrap(f.response)]

\* lines 13..17
base_header_builder(req) ==
    [DnsHeaderBuilder(req.header.id) EXCEPT
        !.recursion_desired = TRUE, !.recursion_available = TRUE, !.response = TRUE]

\* lines 24..38: resolve's response to a successful engine run
ResolveOk_allQuestions(req, result) ==
    [header |-> [base_header_builder(req) EXCEPT
                    !.questions = 1,
                    !.answers = Len(result.answers),
                    !.authoritative_entries = Len(result.authorities),
                    !.resource_entries = Len(result.resources)],
     questions |-> req.questions,
     answers |-> result.answers,
     authorities |-> result.authorities,
     resources |-> result.resources]

\* a response that takes over the rescode of the engine's output
ResolveOk_copiesRescode(req, result) ==
    [header |-> [base_header_builder(req) EXCEPT
                    !.rescode = result.header.rescode,
                    !.questions = 1,
                    !.answers = Len(result.answers),
                    !.authoritative_entries = Len(result.authorities),
                    !.resource_entries = Len(result.resources)],
     questions |-> <<Unwrap(first_question(req))>>,
     answers |-> result.answers,
     authorities |-> result.authorities,
     resources |-> result.resources]

ResolveOk(req, result) ==
    [header |-> [base_header_builder(req) EXCEPT
                    !.questions = 1,
                    !.answers = Len(result.answers),
                    !.authoritative_entries = Len(result.authorities),
                    !.resource_entries = Len(result.resources)],
     questions |-> <<Unwrap(first_question(req))>>,
     answers |-> result.answers,
     authorities |-> result.authorities,
     resources |-> result.resources]

\* lines 39..44: resolve's response to an engine error
ResolveErr_asOk(req) == DnsPacketBuilder(base_header_builder(req))

ResolveErr(req) ==
    DnsPacketBuilder([base_header_builder(req) EXCEPT !.rescode = "SERVFAIL"])

\* lines 46..50: resolve's response to a request without question
ResolveNoQuestion_servfail(req) ==
    DnsPacketBuilder([base_header_builder(req) EXCEPT !.rescode = "SERVFAIL"])

ResolveNoQuestion(req) ==
    DnsPacketBuilder([base_header_builder(req) EXCEPT !.rescode = "FORMERR"])


\* main.rs line 26: where the reply goes
ReplyTo(src) == src

ServerInit ==
    /\ serverPc = "recv"
    /\ clientNet = None
    /\ request = None
    /\ source = None
    /\ stack = <<>>
    /\ ret = None
    /\ outbox = None
    /\ inbox = None
    /\ response = None
    /\ clientOut = None

Init ==
    /\ ServerInit
    /\ codec = None

(***************************************************************************)
(* The environment: a client sends a datagram to the server's socket.      *)
(***************************************************************************)
ClientSend ==
    /\ clientNet = None
    /\ serverPc # "exited"
    /\ \E c \in Clients, d \in ClientDatagrams :
           clientNet' = Some([src |-> c, data |-> d])
    /\ UNCHANGED <<serverPc, request, source, stack, ret, outbox, inbox, response, clientOut, codec>>

(***************************************************************************)
(* main.rs lines 15..21 and lib.rs lines 12..23: recv_from returns a       *)
(* datagram; it is decoded (an error ends main), and resolve either        *)
(* enters recursive_lookup or answers FORMERR.                             *)
(***************************************************************************)
ServerRecv ==
    /\ serverPc = "recv"
    /\ IsSome(clientNet)
    /\ LET d   == Unwrap(clientNet)
           dec == try_from(d.data)
       IN  /\ clientNet' = None
           /\ clientOut' = None
           /\ ret' = None
           /\ outbox' = None
           /\ inbox' = None
           /\ IF ~dec.ok
              THEN /\ serverPc' = "exited"
                   /\ UNCHANGED <<request, source, stack, response>>
              ELSE /\ request' = Some(dec.val)
                   /\ source' = Some(d.src)
                   /\ IF IsSome(first_question(dec.val))
                      THEN /\ stack' = <<EnterLookup(Unwrap(qname(dec.val)),
                                                     Unwrap(qtype(dec.val)),
                                                     ROOT_DNS_SERVER)>>
                           /\ response' = None
                           /\ serverPc' = "resolving"
                      ELSE /\ stack' = <<>>
                           /\ response' = Some(ResolveNoQuestion(dec.val))
                           /\ serverPc' = "reply"
    /\ UNCHANGED codec

\* main.rs line 16: recv_from itself fails
ServerRecvFail ==
    /\ serverPc = "recv"
    /\ serverPc' = "exited"
    /\ UNCHANGED <<clientNet, request, source, stack, ret, outbox, inbox, response, clientOut, codec>>

(***************************************************************************)
(* lib.rs lines 105..114: lookup binds its socket, encodes the query and   *)
(* sends it.  A failure of any of the three returns Err from lookup and,   *)
(* by the `?` of line 65, from recursive_lookup.                           *)
(***************************************************************************)
EngineSend ==
    /\ serverPc = "resolving"
    /\ stack # <<>>
    /\ ret = None
    /\ Top.pc = "lookup"
    /\ \E id \in QueryIds, io \in {"bind fails", "send fails", "sent"} :
           LET enc == EncodedQuery[id, Top.qname, Top.qtype]
           IN  IF io = "bind fails" \/ ~enc.ok \/ io = "send fails"
               THEN /\ ret' = Some(Err(IF io = "bind fails" THEN "bind"
                                       ELSE IF ~enc.ok THEN "encode" ELSE "send"))
                    /\ stack' = Pop(stack)
                    /\ UNCHANGED outbox
               ELSE /\ outbox' = Some([dst |-> Top.ns, data |-> enc.val])
                    /\ stack' = ReplaceTop(stack, [Top EXCEPT !.pc = "recv"])
                    /\ UNCHANGED ret
    /\ UNCHANGED <<serverPc, clientNet, request, source, inbox, response, clientOut, codec>>

(***************************************************************************)
(* The environment: some server answers the query in flight.  The answer   *)
(* does not depend on the query.  An answer that makes the engine nest     *)
(* deeper than MaxDepth is not explored.                                   *)
(***************************************************************************)
UpstreamReply ==
    /\ serverPc = "resolving"
    /\ stack # <<>>
    /\ Top.pc = "recv"
    /\ IsSome(outbox)
    /\ inbox = None
    /\ \E d \in UpstreamDatagrams :
           /\ LET dec == try_from(d)
              IN  (dec.ok /\ Decide(dec.val, Top.qname).kind = "inner")
                      => Len(stack) < MaxDepth
           /\ inbox' = Some(d)
    /\ outbox' = None
    /\ UNCHANGED <<serverPc, clientNet, request, source, stack, ret, response, clientOut, codec>>

(***************************************************************************)
(* lib.rs lines 117..118 and 67..94: recv_from returns the datagram, it is *)
(* decoded, and the loop body runs up to its return, to the next call of   *)
(* lookup or into the nested recursive_lookup.                             *)
(***************************************************************************)
EngineRecv ==
    /\ serverPc = "resolving"
    /\ stack # <<>>
    /\ Top.pc = "recv"
    /\ IsSome(inbox)
    /\ inbox' = None
    /\ LET dec == try_from(Unwrap(inbox))
       IN  IF ~dec.ok
           THEN /\ ret' = Some(Err("decode"))
                /\ stack' = Pop(stack)
           ELSE LET todo == Decide(dec.val, Top.qname)
                IN  CASE todo.kind = "return" ->
                           /\ ret' = Some(Ok(dec.val))
                           /\ stack' = Pop(stack)
                      [] todo.kind = "continue" ->
                           /\ stack' = ReplaceTop(stack, [Top EXCEPT !.ns = todo.ns, !.pc = "lookup"])
                           /\ UNCHANGED ret
                      [] todo.kind = "inner" ->
                           /\ stack' = Append(
                                  ReplaceTop(stack, [Top EXCEPT !.pc = "inner",
                                                                !.response = Some(dec.val)]),
                                  EnterLookup(todo.host, "A", Top.ns))
                           /\ UNCHANGED ret
    /\ UNCHANGED <<serverPc, clientNet, request, source, outbox, response, clientOut, codec>>

\* lib.rs line 117: recv_from fails
EngineRecvFail ==
    /\ serverPc = "resolving"
    /\ stack # <<>>
    /\ Top.pc = "recv"
    /\ inbox = None
    /\ ret' = Some(Err("recv"))
    /\ stack' = Pop(stack)
    /\ outbox' = None
    /\ UNCHANGED <<serverPc, clientNet, request, source, inbox, response, clientOut, codec>>

(***************************************************************************)
(* lib.rs lines 94..100: the nested recursive_lookup has returned to the   *)
(* activation that called it.                                              *)
(***************************************************************************)
EngineInnerReturn ==
    /\ serverPc = "resolving"
    /\ stack # <<>>
    /\ IsSome(ret)
    /\ Top.pc = "inner"
    /\ LET r == Unwrap(ret)
       IN  IF ~r.ok
           THEN /\ stack' = Pop(stack)
                /\ UNCHANGED ret
           ELSE LET todo == AfterInner(Top, r.val)
                IN  IF todo.kind = "continue"
                    THEN /\ stack' = ReplaceTop(stack,
                                [Top EXCEPT !.ns = todo.ns, !.pc = "lookup", !.response = None])
                         /\ ret' = None
                    ELSE /\ stack' = Pop(stack)
                         /\ ret' = Some(Ok(todo.val))
    /\ UNCHANGED <<serverPc, clientNet, request, source, outbox, inbox, response, clientOut, codec>>

(***************************************************************************)
(* lib.rs lines 23..53: the outermost recursive_lookup has returned to     *)
(* resolve, which builds the response and returns it to main.              *)
(***************************************************************************)
ResolveReturn ==
    /\ serverPc = "resolving"
    /\ stack = <<>>
    /\ IsSome(ret)
    /\ LET r == Unwrap(ret)
       IN  response' = Some(IF r.ok THEN ResolveOk(Unwrap(request), r.val)
                            ELSE ResolveErr(Unwrap(request)))
    /\ serverPc' = "reply"
    /\ UNCHANGED <<clientNet, request, source, stack, ret, outbox, inbox, clientOut, codec>>

(***************************************************************************)
(* main.rs lines 24..26: the response is encoded and sent to the source    *)
(* of the request; an error of either ends main, otherwise the loop goes   *)
(* back to recv_from.                                                      *)
(***************************************************************************)
ServerReply ==
    /\ serverPc = "reply"
    /\ LET enc == write_packet(Unwrap(response))
       IN  \E sent \in BOOLEAN :
               IF enc.ok /\ sent
               THEN /\ clientOut' = Some([dst |-> ReplyTo(Unwrap(source)), data |-> enc.val])
                    /\ serverPc' = "recv"
               ELSE /\ serverPc' = "exited"
                    /\ UNCHANGED clientOut
    /\ UNCHANGED <<clientNet, request, source, stack, ret, outbox, inbox, response, codec>>

EngineNext ==
    \/ EngineSend
    \/ UpstreamReply
    \/ EngineRecv
    \/ EngineInnerReturn
    \/ ResolveReturn

Next ==
    \/ ClientSend
    \/ ServerRecv
    \/ ServerRecvFail
    \/ EngineSend
    \/ UpstreamReply
    \/ EngineRecv
    \/ EngineRecvFail
    \/ EngineInnerReturn
    \/ ResolveReturn
    \/ ServerReply

Spec == Init /\ [][Next]_vars

\* The program runs on: while a resolution is under way some step of it is
\* taken, and every upstream query is answered.
FairSpec == Spec /\ WF_vars(EngineNext)

\* The engine runs on by itself: every step recursive_lookup can take on its
\* own is eventually taken.  Nothing is assumed of the environment: an
\* upstream server may stay silent (UpstreamReply), and recv_from need not
\* fail (EngineRecvFail).
SilentUpstreamSpec ==
    /\ Spec
    /\ WF_vars(EngineSend)
    /\ WF_vars(EngineRecv)
    /\ WF_vars(EngineInnerReturn)
    /\ WF_vars(ResolveReturn)

(***************************************************************************)
(* Vocabulary of the properties.                                           *)
(***************************************************************************)
\* the step in which the innermost activation receives an upstream datagram
ReceivesDatagram ==
    /\ serverPc = "resolving"
    /\ stack # <<>>
    /\ Top.pc = "recv"
    /\ IsSome(inbox)
    /\ inbox' = None

\* ... and the datagram decodes to a message
ReceivesResponse == ReceivesDatagram /\ try_from(Unwrap(inbox)).ok

Received == try_from(Unwrap(inbox)).val

\* the activation that receives returns v, asks nobody and nests no call
ReturnsNow(v) ==
    /\ ret' = Some(Ok(v))
    /\ stack' = Pop(stack)
    /\ outbox' = None

Terminal(p) ==
    \/ Len(p.answers) > 0 /\ p.header.rescode = "NOERROR"
    \/ p.header.rescode = "NXDOMAIN"

\* the authority NS records of p whose owner is a suffix of name
IsNsFor(r, name) == r.t = "NS" /\ ends_with(name, r.domain)

\* h is the target of the first authority NS whose owner is a suffix of name
FirstNsTarget(p, name, h) ==
    \E i \in 1..Len(p.authorities) :
        /\ IsNsFor(p.authorities[i], name)
        /\ p.authorities[i].host = h
        /\ \A j \in 1..(i - 1) : ~IsNsFor(p.authorities[j], name)

NoNsFor(p, name) == \A i \in 1..Len(p.authorities) : ~IsNsFor(p.authorities[i], name)

\* the i-th answer of p is its first A record
FirstAnswerA(p, i) ==
    /\ p.answers[i].t = "A"
    /\ \A j \in 1..(i - 1) : p.answers[j].t # "A"

NoAnswerA(p) == \A i \in 1..Len(p.answers) : p.answers[i].t # "A"

\* the step in which the engine sends a query
SendsQuery == ~IsSome(outbox) /\ IsSome(outbox')

\* every query goes to the `ns` of the activation that sends it, and is,
\* but for its id, the encoded query for that activation's qname and qtype
QueryFollowsFrame ==
    SendsQuery =>
        /\ stack # <<>>
        /\ Unwrap(outbox').dst = Top.ns
        /\ LET sent == Unwrap(outbox').data
                want == write_packet(mk_query(0, Top.qname, Top.qtype))
            IN  /\ want.ok
                /\ Len(sent) = Len(want.val)
                /\ SubSeq(sent, 3, Len(sent)) = SubSeq(want.val, 3, Len(sent))

\* the step in which a nested call hands its Ok result to its caller
InnerHandsOver ==
    /\ serverPc = "resolving"
    /\ stack # <<>>
    /\ Top.pc = "inner"
    /\ IsSome(ret)
    /\ Unwrap(ret).ok
    /\ <<stack, ret>>' # <<stack, ret>>

(***************************************************************************)
(* C1.  Whenever the response an activation of recursive_lookup decodes    *)
(* has rescode NXDOMAIN (with or without answers, NS records or glue),     *)
(* the activation returns exactly that response; it sends no further       *)
(* query and starts no inner resolution.                                   *)
(***************************************************************************)
C1_NxDomainIsReturned ==
    [][(ReceivesResponse /\ Received.header.rescode = "NXDOMAIN")
           => ReturnsNow(Received)]_vars

\* an NXDOMAIN response with an answer, an NS record and glue was returned
C1_Witness ==
    /\ IsSome(ret)
    /\ ret = Some(Ok(RNxFull))
    /\ outbox = None

(***************************************************************************)
(* C2.  Whenever the response an activation of recursive_lookup decodes    *)
(* has a non-empty answer section and rescode NOERROR, the activation      *)
(* returns exactly that response and sends no further query, whatever the  *)
(* authority and additional sections hold.                                 *)
(***************************************************************************)
C2_AnswerIsReturned ==
    [][(ReceivesResponse /\ Len(Received.answers) > 0
            /\ Received.header.rescode = "NOERROR")
           => ReturnsNow(Received)]_vars

\* an answer that also carries a delegation with glue was returned
C2_Witness ==
    /\ ret = Some(Ok(RAnswer))
    /\ Len(RAnswer.authorities) > 0
    /\ IsSome(get_resolved_ns(RAnswer, NameAC))
    /\ outbox = None

(***************************************************************************)
(* C3.  When the response is not terminal and get_resolved_ns(qname)       *)
(* yields an address, the activation stays in its loop with ns set to that *)
(* address on port 53, qname and qtype unchanged, and no inner resolution  *)
(* is started; the next query it sends goes to that ns with that qname and *)
(* qtype.                                                                  *)
(***************************************************************************)
C3_GlueIsFollowed ==
    [][/\ (ReceivesResponse /\ ~Terminal(Received)
               /\ IsSome(get_resolved_ns(Received, Top.qname)))
           => /\ Len(stack') = Len(stack)
              /\ stack' = ReplaceTop(stack,
                     Frame(Top.qname, Top.qtype,
                           [ip |-> Unwrap(get_resolved_ns(Received, Top.qname)), port |-> 53],
                           "lookup", None))
              /\ ret' = None
       /\ QueryFollowsFrame]_vars

\* a query was sent to the glue address of RGlue, which no answer holds
C3_Witness ==
    /\ IsSome(outbox)
    /\ Unwrap(outbox).dst = [ip |-> Ip1, port |-> 53]
    /\ Len(stack) = 1

(***************************************************************************)
(* C4.  When a non-terminal response has no glue address but an authority  *)
(* NS whose owner is a suffix of qname, the activation starts an inner     *)
(* resolution of (h, A), h the target of the first such NS, that begins at *)
(* 198.41.0.4:53; no step of the inner resolution changes an outer         *)
(* activation; and when the inner result has an A record among its         *)
(* answers, the outer activation goes on with ns set to the first such     *)
(* address on port 53, its qname and qtype unchanged, and its next query   *)
(* goes there.                                                             *)
(***************************************************************************)
C4_InnerResolution ==
    [][/\ (ReceivesResponse /\ ~Terminal(Received)
               /\ ~IsSome(get_resolved_ns(Received, Top.qname))
               /\ ~NoNsFor(Received, Top.qname))
           => /\ Len(stack') = Len(stack) + 1
              /\ FirstNsTarget(Received, Top.qname, stack'[Len(stack')].qname)
              /\ stack'[Len(stack')] =
                     Frame(stack'[Len(stack')].qname, "A",
                           [ip |-> <<198, 41, 0, 4>>, port |-> 53], "lookup", None)
              /\ stack'[Len(stack)] = [Top EXCEPT !.pc = "inner", !.response = Some(Received)]
              /\ ret' = None
              /\ outbox' = None
       /\ \A i \in 1..(Len(stack) - 1) :
              /\ Len(stack') >= i => stack'[i] = stack[i]
              /\ stack[i].pc = "inner"
       /\ (InnerHandsOver /\ ~NoAnswerA(Unwrap(ret).val))
           => \E i \in 1..Len(Unwrap(ret).val.answers) :
                  LET a == Unwrap(ret).val.answers[i].addr
                  IN  /\ FirstAnswerA(Unwrap(ret).val, i)
                      /\ stack' = ReplaceTop(stack,
                             Frame(Top.qname, Top.qtype, [ip |-> a, port |-> 53], "lookup", None))
                      /\ ret' = None
       /\ QueryFollowsFrame]_vars

\* the outer activation asks the address that the inner resolution found
C4_Witness ==
    /\ Len(stack) = 1
    /\ IsSome(outbox)
    /\ Unwrap(outbox).dst = [ip |-> Ip2, port |-> 53]
    /\ Top.qname = NameAC
    /\ Top.qtype = "MX"

(***************************************************************************)
(* C5.  When a non-terminal response offers no usable delegation (no       *)
(* authority NS whose owner is a suffix of qname, or the inner resolution  *)
(* of the NS host returns a message without any A answer), the activation  *)
(* returns its own most recent response unchanged, never the inner one,    *)
(* and sends no further query.                                             *)
(***************************************************************************)
C5_NoDelegationReturnsResponse ==
    [][/\ (ReceivesResponse /\ ~Terminal(Received) /\ NoNsFor(Received, Top.qname))
           => ReturnsNow(Received)
       /\ (ReceivesResponse /\ Len(stack') = Len(stack) + 1)
           => stack'[Len(stack)].response = Some(Received)
       /\ (InnerHandsOver /\ NoAnswerA(Unwrap(ret).val))
           => /\ ret' = Some(Ok(Unwrap(Top.response)))
              /\ stack' = Pop(stack)
              /\ outbox' = None
              /\ outbox = None]_vars

\* the outer response, a delegation without glue, was returned after an
\* inner resolution that ended without an A answer
C5_Witness ==
    /\ ret = Some(Ok(RNoGlue))
    /\ Len(stack) = 0
    /\ serverPc = "resolving"

(***************************************************************************)
(* C6.  Every invocation of the recursive engine terminates, provided each *)
(* query is answered: a resolution that has started is eventually over,    *)
(* also when the servers keep returning delegations that do not narrow.    *)
(***************************************************************************)
C6_EngineTerminates == (serverPc = "resolving") ~> (serverPc # "resolving")

(***************************************************************************)
(* C7.  The server loop never terminates because of a per-query error:     *)
(* after any received datagram, also one that fails to decode or has       *)
(* trailing octets, and after any response, also one that cannot be        *)
(* encoded within 512 octets or cannot be sent, the server does not exit.  *)
(***************************************************************************)
C7_ServerLoopSurvivesQueryErrors ==
    [][((serverPc = "recv" /\ IsSome(clientNet) /\ clientNet' = None)
            \/ serverPc = "reply")
           => serverPc' # "exited"]_vars

(***************************************************************************)
(* C8.  Every error raised inside the recursive engine at any nesting      *)
(* depth makes resolve return a response with rescode SERVFAIL, QR = 1,    *)
(* the id of the client request and empty sections; an error of an inner   *)
(* resolution makes each outer activation return that error at once,       *)
(* without any further query.                                              *)
(***************************************************************************)
C8_EngineErrorBecomesServfail ==
    [][(serverPc = "resolving" /\ IsSome(ret) /\ ~Unwrap(ret).ok
            /\ <<stack, ret, serverPc, outbox>>' # <<stack, ret, serverPc, outbox>>)
           => IF stack # <<>>
              THEN /\ stack' = Pop(stack)
                   /\ ret' = ret
                   /\ outbox' = None
                   /\ outbox = None
                   /\ serverPc' = "resolving"
              ELSE /\ serverPc' = "reply"
                   /\ IsSome(response')
                   /\ LET r == Unwrap(response')
                      IN  /\ r.header.rescode = "SERVFAIL"
                          /\ r.header.response
                          /\ r.header.id = Unwrap(request).header.id
                          /\ r.questions = <<>>
                          /\ r.answers = <<>>
                          /\ r.authorities = <<>>
                          /\ r.resources = <<>>
                   /\ outbox' = None]_vars

\* the error of an inner resolution reached resolve, which answered
\* SERVFAIL to a request with id 7
C8_Witness ==
    /\ serverPc = "reply"
    /\ IsSome(ret)
    /\ ~Unwrap(ret).ok
    /\ Unwrap(response).header.rescode = "SERVFAIL"
    /\ Unwrap(response).header.id = 7
    /\ Unwrap(request).header.id = 7

(***************************************************************************)
(* C9.  For a client request whose engine run succeeds, resolve returns a  *)
(* response with QR = 1, RA = 1, the id of the request, exactly one        *)
(* question, the first of the request, and the answer, authority and       *)
(* additional sections of the engine's output, in order; what the server   *)
(* then sends is the encoding of that response, and it goes to the source  *)
(* address of the request datagram.                                        *)
(***************************************************************************)
C9_ResponseOfSuccessfulRun ==
    /\ [][(serverPc = "recv" /\ IsSome(clientNet) /\ clientNet' = None
               /\ serverPc' # "exited")
              => /\ source' = Some(Unwrap(clientNet).src)
                 /\ Wire(Unwrap(request')) = Unwrap(clientNet).data]_vars
    /\ []((IsSome(ret) /\ Unwrap(ret).ok /\ IsSome(response))
              => LET r   == Unwrap(response)
                     req == Unwrap(request)
                     out == Unwrap(ret).val
                 IN  /\ r.header.response
                     /\ r.header.recursion_available
                     /\ r.header.id = req.header.id
                     /\ Len(r.questions) = 1
                     /\ r.questions[1] = req.questions[1]
                     /\ r.answers = out.answers
                     /\ r.authorities = out.authorities
                     /\ r.resources = out.resources
                     /\ IsSome(clientOut)
                            => /\ Unwrap(clientOut).dst = Unwrap(source)
                               /\ Ok(Unwrap(clientOut).data) = write_packet(r))

\* the answer to a request with two questions was sent
C9_Witness ==
    /\ IsSome(clientOut)
    /\ IsSome(ret)
    /\ Unwrap(ret).ok
    /\ Len(Unwrap(request).questions) = 2
    /\ Len(Unwrap(ret).val.answers) = 3

(***************************************************************************)
(* C10.  For a client request with an empty question section, resolve      *)
(* returns a response with rescode FORMERR, QR = 1 and the id of the       *)
(* request, and no upstream query is sent.                                 *)
(***************************************************************************)
C10_NoQuestionIsFormErr ==
    (IsSome(request) /\ Len(Unwrap(request).questions) = 0)
        => /\ serverPc # "resolving"
           /\ stack = <<>>
           /\ outbox = None
           /\ ret = None
           /\ IsSome(response)
           /\ Unwrap(response).header.rescode = "FORMERR"
           /\ Unwrap(response).header.response
           /\ Unwrap(response).header.id = Unwrap(request).header.id

\* the FORMERR response to a request without question was sent
C10_Witness ==
    /\ IsSome(request)
    /\ Len(Unwrap(request).questions) = 0
    /\ IsSome(clientOut)
    /\ serverPc = "recv"

\* lookup is blocked in recv_from (lib.rs line 117): the query is out and no
\* datagram has come in
BlockedInRecv ==
    /\ serverPc = "resolving"
    /\ stack # <<>>
    /\ Top.pc = "recv"
    /\ inbox = None

(***************************************************************************)
(* C11.  The engine does not block for ever in recv_from: when the         *)
(* upstream server never replies, the receive times out and lookup         *)
(* returns, with the network error that resolve turns into SERVFAIL.       *)
(***************************************************************************)
C11_RecvTimesOut == BlockedInRecv ~> ~BlockedInRecv

(***************************************************************************)
(* The dnsparse library called on its own, as the unit tests of parser.rs  *)
(* and writer.rs call it: a header, a name or a message is encoded and     *)
(* the octets are decoded again, or given octets are decoded.              *)
(*                                                                         *)
(* The octets of the decoder's inputs are put together by hand, from the   *)
(* wire format and not by the encoder.                                     *)
(***************************************************************************)
U16(n) == <<(n \div 256) % 256, n % 256>>
U32(n) == <<(n \div 16777216) % 256, (n \div 65536) % 256, (n \div 256) % 256, n % 256>>
Label(s) == <<Len(s)>> \o s
\* a compression pointer: 11 and the 14 bits of the offset
Pointer(offset) == <<192 + (offset \div 256), offset % 256>>
PlainAC == Label(<<97>>) \o Label(<<99>>) \o <<0>>
PlainNC == Label(<<110>>) \o Label(<<99>>) \o <<0>>

\* the header of a response, QR = RD = RA = 1, and its octets
ResponseHeader(qd, an, ns, ar) ==
    [DnsHeaderBuilder(4660) EXCEPT
        !.response = TRUE, !.recursion_desired = TRUE, !.recursion_available = TRUE,
        !.questions = qd, !.answers = an, !.authoritative_entries = ns,
        !.resource_entries = ar]
WireHeader(qd, an, ns, ar) ==
    U16(4660) \o <<129, 128>> \o U16(qd) \o U16(an) \o U16(ns) \o U16(ar)
WireQuestion(name, type) == name \o U16(type) \o U16(1)
WireRecord(name, type, ttl, rdata) ==
    name \o U16(type) \o U16(1) \o U32(ttl) \o U16(Len(rdata)) \o rdata

\* octets to decode: `means` is the message they encode when they are a
\* valid packet
Octets(kind, octets, means) == [kind |-> kind, octets |-> octets, means |-> means]

\* the number of A records that precede the name a far pointer points to
PadAnswers == 15
\* the offset of that name: beyond the header, the question and the padding
FarOffset == 12 + 9 + 16 * PadAnswers

\* no pointer at all
PlainWire ==
    Octets("valid",
           WireHeader(1, 1, 1, 0) \o WireQuestion(PlainAC, 1)
               \o WireRecord(PlainAC, 1, 20, Ip1)
               \o WireRecord(Label(<<99>>) \o <<0>>, 2, 60, PlainNC),
           Some([header |-> ResponseHeader(1, 1, 1, 0),
                 questions |-> <<DnsQuestion(NameAC, "A")>>,
                 answers |-> <<RecA(NameAC, Ip1, 20)>>,
                 authorities |-> <<RecNS(NameC, NameNC, 60)>>,
                 resources |-> <<>>]))

\* pointers to offsets 12 ("a.c") and 14 ("c"), as in the packets of the
\* tests of parser.rs
NearPointerWire ==
    Octets("valid",
           WireHeader(1, 2, 1, 0) \o WireQuestion(PlainAC, 1)
               \o WireRecord(Pointer(12), 1, 20, Ip1)
               \o WireRecord(Pointer(12), 5, 19, Label(<<110>>) \o Pointer(14))
               \o WireRecord(Pointer(14), 15, 60, U16(10) \o Label(<<109>>) \o Pointer(14)),
           Some([header |-> ResponseHeader(1, 2, 1, 0),
                 questions |-> <<DnsQuestion(NameAC, "A")>>,
                 answers |-> <<RecA(NameAC, Ip1, 20), RecCNAME(NameAC, NameNC, 19)>>,
                 authorities |-> <<RecMX(NameC, 10, NameMC, 60)>>,
                 resources |-> <<>>]))

\* a pointer to an offset of 256 or more: its first octet is not 0xC0
FarPointerWire ==
    Octets("valid",
           WireHeader(1, PadAnswers + 2, 0, 0) \o WireQuestion(PlainAC, 1)
               \o [i \in 1..(16 * PadAnswers) |->
                      WireRecord(Pointer(12), 1, 20, Ip1)[((i - 1) % 16) + 1]]
               \o WireRecord(PlainNC, 1, 20, Ip2)
               \o WireRecord(Pointer(FarOffset), 1, 20, Ip1),
           Some([header |-> ResponseHeader(1, PadAnswers + 2, 0, 0),
                 questions |-> <<DnsQuestion(NameAC, "A")>>,
                 answers |-> [i \in 1..(PadAnswers + 2) |->
                                 IF i <= PadAnswers THEN RecA(NameAC, Ip1, 20)
                                 ELSE IF i = PadAnswers + 1 THEN RecA(NameNC, Ip2, 20)
                                 ELSE RecA(NameNC, Ip1, 20)],
                 authorities |-> <<>>,
                 resources |-> <<>>]))

\* a pointer at offset 12 that points to offset 12
SelfPointerWire ==
    Octets("loop", WireHeader(1, 0, 0, 0) \o WireQuestion(Pointer(12), 1), None)
\* a label followed by a pointer back to the label
LabelLoopWire ==
    Octets("loop", WireHeader(1, 0, 0, 0) \o WireQuestion(Label(<<97>>) \o Pointer(12), 1), None)
\* two pointers that point to each other: the name of the question, at
\* offset 12, and the RDATA of the record, at offset 33
CycleWire ==
    Octets("loop",
           WireHeader(1, 1, 0, 0) \o WireQuestion(Pointer(33), 1)
               \o WireRecord(PlainAC, 2, 60, Pointer(12)),
           None)

\* a packet followed by one more octet
TrailingWire == Octets("trailing", PlainWire.octets \o <<0>>, None)
TrailingPointerWire == Octets("trailing", NearPointerWire.octets \o <<192, 12>>, None)

\* a count announces one record more than the octets hold
AnnouncesMoreWire ==
    Octets("short",
           WireHeader(1, 1, 2, 0) \o SubSeq(PlainWire.octets, 13, Len(PlainWire.octets)),
           None)
\* the octets end inside the last record
CutWire == Octets("short", SubSeq(PlainWire.octets, 1, Len(PlainWire.octets) - 3), None)
\* the octets end after the header
HeaderOnlyWire == Octets("short", WireHeader(1, 0, 0, 0), None)

\* one answer whose RDLENGTH, the length of `rdata`, does not fit its type
BadRdLength(type, rdata) ==
    Octets("rdlength",
           WireHeader(1, 1, 0, 0) \o WireQuestion(PlainAC, 1)
               \o WireRecord(Pointer(12), type, 20, rdata),
           None)
\* A and AAAA records of one octet more and one octet less than the
\* address, and NS, CNAME and MX records with an octet after the name
RdLengthWires ==
    {BadRdLength(1, Ip1 \o <<9>>), BadRdLength(1, SubSeq(Ip1, 1, 3)),
     BadRdLength(28, [i \in 1..17 |-> 1]), BadRdLength(28, [i \in 1..15 |-> 1]),
     BadRdLength(2, PlainNC \o <<9>>), BadRdLength(5, Label(<<110>>) \o Pointer(14) \o <<9>>),
     BadRdLength(15, U16(10) \o PlainNC \o <<9>>)}

WireInputs ==
    {PlainWire, NearPointerWire, FarPointerWire, SelfPointerWire, LabelLoopWire, CycleWire,
     TrailingWire, TrailingPointerWire, AnnouncesMoreWire, CutWire, HeaderOnlyWire}
        \cup RdLengthWires

\* messages to encode
\* the question, 24 A records and an NS record whose target is one label
\* of n octets: 512 octets for n = 20, 513 for n = 21
EdgeMessage(n) ==
    Upstream("NOERROR", [i \in 1..24 |-> RecA(NameAC, Ip1, 20)],
             <<RecNS(NameC, [i \in 1..n |-> 97], 60)>>, <<>>)
\* an UNKNOWN record between two A records, counted by the header
WithUnknown ==
    Upstream("NOERROR", <<RecA(NameAC, Ip1, 20), RecUNKNOWN(NameAC, 99, 0, 20), RecA(NameAC, Ip2, 20)>>,
             <<>>, <<>>)
\* every record type that is written
AllTypes ==
    Upstream("NOERROR", <<RecCNAME(NameAC, NameNC, 19), RecA(NameNC, Ip2, 20), RecAAAA(NameNC, Ip6, 20)>>,
             <<RecNS(NameC, NameNC, 60)>>, <<RecMX(NameC, 10, NameMC, 60)>>)
\* a header whose counts are not the lengths of the sections
WrongCounts ==
    [AllTypes EXCEPT !.header.questions = 0, !.header.answers = 1,
                     !.header.authoritative_entries = 3, !.header.resource_entries = 0]
\* the root as the name of the question
RootQuestion == ClientQuery(7, <<DnsQuestion(<<>>, "NS")>>)

MessageInputs ==
    Requests \cup Responses
        \cup {EdgeMessage(20), EdgeMessage(21), WithUnknown, AllTypes, WrongCounts, RootQuestion}

\* names to encode
\* k labels of 63 octets and one of n octets: 64 * k + n + 2 octets on the wire
LongName(k, n) ==
    [i \in 1..(64 * k + n) |-> IF i % 64 = 0 THEN 46 ELSE 97]

NameInputs ==
    {<<>>, NameAC, NameC, NameLong,
     [i \in 1..63 |-> 97],       \* one label of 63 octets
     <<97, 46, 46, 99>>,         \* "a..c"
     <<46, 97>>,                 \* ".a"
     <<97, 46>>,                 \* "a."
     <<46>>,                     \* "."
     LongName(3, 61),            \* 255 octets on the wire
     LongName(3, 62),            \* 256 octets on the wire
     LongName(4, 10)}

\* octets to decode a name from: every buffer of up to MaxBufLen octets
\* over NameOctets, read from its start.  The octets are the terminator,
\* label lengths and pointer targets inside the buffer (1, 2), length
\* octets with the high bits 01 and 10 (0x40, 0x80), a letter, which is
\* also a pointer target outside the buffer, and the pointer octets 0xC0
\* and 0xC1.
MaxBufLen == 4
NameOctets == {0, 1, 2, 64, 97, 128, 192, 193}
Buffers == UNION {[1..n -> NameOctets] : n \in 0..MaxBufLen}
\* names inside a larger buffer, read from the offset `at`
NameAt(original, at) == [original |-> original, at |-> at]
NameWireInputs ==
    {NameAt(b, 0) : b \in Buffers}
        \cup {NameAt(NearPointerWire.octets, at) : at \in {12, 14, 21, 49, 67}}
        \cup {NameAt(FarPointerWire.octets, FarOffset + 19)}

\* messages to look a name server up in, and the name it is looked up for:
\* every authority and every additional section of up to MaxSection
\* records of the pools, with and without an answer.  The owners of the NS
\* records are a suffix of both names ("c"), of every name (the root), of
\* "a.c" only (".c") and of neither ("b").
MaxSection == 2
NameAc == <<97, 99>>           \* "ac"
AuthorityPool ==
    {RecNS(NameC, NameNC, 60), RecNS(<<>>, NameNC, 60), RecNS(<<46, 99>>, NameMC, 60),
     RecNS(NameB, NameNC, 60), RecA(NameC, Ip2, 60)}
AdditionalPool ==
    {RecA(NameNC, Ip1, 60), RecA(NameNC, Ip2, 60), RecA(NameMC, Ip2, 60),
     RecAAAA(NameNC, Ip6, 60)}
Sections(pool) == UNION {[1..n -> pool] : n \in 0..MaxSection}
NsInputs ==
    {[p |-> Upstream("NOERROR", ans, auth, res), name |-> n] :
        ans \in {<<>>, <<RecA(NameMC, Ip1, 20)>>},
        auth \in Sections(AuthorityPool), res \in Sections(AdditionalPool),
        n \in {NameAC, NameAc}}

\* headers to encode: every opcode of four bits, every flag, every named
\* response code
HeaderInputs ==
    {[id |-> 4660, response |-> qr, opcode |-> op, authoritative_answer |-> aa,
      truncated_message |-> tc, recursion_desired |-> rd, recursion_available |-> ra,
      z |-> zz, authed_data |-> ad, checking_disabled |-> cd, rescode |-> rc,
      questions |-> 1, answers |-> 2, authoritative_entries |-> 3, resource_entries |-> 4] :
        qr \in BOOLEAN, op \in 0..15, aa \in BOOLEAN, tc \in BOOLEAN, rd \in BOOLEAN,
        ra \in BOOLEAN, zz \in BOOLEAN, ad \in BOOLEAN, cd \in BOOLEAN,
        rc \in {"NOERROR", "FORMERR", "SERVFAIL", "NXDOMAIN", "NOTIMP", "REFUSED"}}

\* a call: what is called on what, the buffer the encoder has filled
\* (Option) and what the decoder has returned (Option)
Call(call, arg) == [call |-> call, arg |-> arg, wire |-> None, out |-> None]

CodecInit ==
    /\ ServerInit
    /\ codec \in {Call("header", h) : h \in HeaderInputs}
                    \cup {Call("packet", m) : m \in MessageInputs}
                    \cup {Call("qname", n) : n \in NameInputs}
                    \cup {Call("wire", w) : w \in WireInputs}
                    \cup {Call("name", n) : n \in NameWireInputs}
                    \cup {Call("get_resolved_ns", n) : n \in NsInputs}

serverVars ==
    <<serverPc, clientNet, request, source, stack, ret, outbox, inbox, response, clientOut>>

\* what the calls give on each of the inputs
WrittenHeader(h) == write_header(h, BytePacketBuffer_new)
ReadHeader(h) == header(WrittenHeader(h).bytes)
WrittenPacket == [m \in MessageInputs |-> write(m)]
ReadPacket == [m \in MessageInputs |-> DnsPacket_try_from(WrittenPacket[m].bytes)]
ReadWire == [w \in WireInputs |-> DnsPacket_try_from(w.octets)]
WrittenName == [n \in NameInputs |-> write_qname(BytePacketBuffer_new, n)]
ReadName ==
    [n \in NameInputs |-> domain_name(WrittenName[n].bytes, WrittenName[n].bytes, {})]

\* writer.rs, write_header on a fresh buffer
EncodeHeader ==
    /\ codec.call = "header"
    /\ codec.wire = None
    /\ codec' = [codec EXCEPT !.wire = Some(WrittenHeader(codec.arg))]
    /\ UNCHANGED serverVars

\* parser.rs, header() on the octets written
DecodeHeader ==
    /\ codec.call = "header"
    /\ IsSome(codec.wire)
    /\ codec.out = None
    /\ codec' = [codec EXCEPT !.out = Some(ReadHeader(codec.arg))]
    /\ UNCHANGED serverVars

\* writer.rs, write on a fresh buffer
EncodePacket ==
    /\ codec.call = "packet"
    /\ codec.wire = None
    /\ codec' = [codec EXCEPT !.wire = Some(WrittenPacket[codec.arg])]
    /\ UNCHANGED serverVars

\* parser.rs, try_from on the octets buf[..size] of a successful write
DecodePacket ==
    /\ codec.call = "packet"
    /\ IsSome(codec.wire)
    /\ Unwrap(codec.wire).ok
    /\ codec.out = None
    /\ codec' = [codec EXCEPT !.out = Some(ReadPacket[codec.arg])]
    /\ UNCHANGED serverVars

\* parser.rs, try_from on given octets
DecodeWire ==
    /\ codec.call = "wire"
    /\ codec.out = None
    /\ codec' = [codec EXCEPT !.out = Some(ReadWire[codec.arg])]
    /\ UNCHANGED serverVars

\* writer.rs, write_qname on a fresh buffer
EncodeName ==
    /\ codec.call = "qname"
    /\ codec.wire = None
    /\ codec' = [codec EXCEPT !.wire = Some(WrittenName[codec.arg])]
    /\ UNCHANGED serverVars

\* parser.rs, domain_name on the octets of a name that was written
DecodeName ==
    /\ codec.call = "qname"
    /\ IsSome(codec.wire)
    /\ Unwrap(codec.wire).ok
    /\ codec.out = None
    /\ codec' = [codec EXCEPT !.out = Some(ReadName[codec.arg])]
    /\ UNCHANGED serverVars

\* the octets of a buffer from the offset `at` on
From(original, at) == SubSeq(original, at + 1, Len(original))

\* parser.rs, domain_name(original)(&original[at..])
ReadNameAt(n) == domain_name(n.original, From(n.original, n.at), {})

DecodeNameAt ==
    /\ codec.call = "name"
    /\ codec.out = None
    /\ codec' = [codec EXCEPT !.out = Some(ReadNameAt(codec.arg))]
    /\ UNCHANGED serverVars

\* types.rs, get_resolved_ns on a message
ResolveNs ==
    /\ codec.call = "get_resolved_ns"
    /\ codec.out = None
    /\ codec' = [codec EXCEPT !.out = Some(get_resolved_ns(codec.arg.p, codec.arg.name))]
    /\ UNCHANGED serverVars

CodecNext ==
    \/ EncodeHeader
    \/ DecodeHeader
    \/ EncodePacket
    \/ DecodePacket
    \/ DecodeWire
    \/ EncodeName
    \/ DecodeName
    \/ DecodeNameAt
    \/ ResolveNs

CodecSpec == CodecInit /\ [][CodecNext]_vars

(***************************************************************************)
(* Vocabulary of the properties of the codec.                              *)
(***************************************************************************)
\* a call of the decoder on given octets has returned, or has ended the
\* process
WireDecoded == codec.call = "wire" /\ IsSome(codec.out)

\* a call of the encoder has returned
Encoded(call) == codec.call = call /\ IsSome(codec.wire)

\* a message was encoded and the octets were decoded
RoundTripped(call) ==
    codec.call = call /\ IsSome(codec.wire) /\ Unwrap(codec.wire).ok /\ IsSome(codec.out)

(***************************************************************************)
(* C12.  Decoding a name whose pointer chain loops (a pointer that points  *)
(* to itself, a label followed by a pointer back to it, pointers that      *)
(* point to each other) returns a format error.                            *)
(***************************************************************************)
C12_PointerLoopIsError ==
    (WireDecoded /\ codec.arg.kind = "loop") => Unwrap(codec.out).st = "err"

(***************************************************************************)
(* C13.  Whatever pointers a valid packet uses, with targets below or      *)
(* above offset 255, decode succeeds and returns the message the packet    *)
(* encodes, the one its encoding without pointers decodes to.              *)
(***************************************************************************)
C13_PointersDecodeAlike ==
    (WireDecoded /\ IsSome(codec.arg.means))
        => Unwrap(codec.out) = IOk(<<>>, Unwrap(codec.arg.means))

(***************************************************************************)
(* C14.  The four counts that encode writes into the header are the        *)
(* lengths of the four sections of the message, whatever the count fields  *)
(* of its header hold.                                                     *)
(***************************************************************************)
C14_CountsAreSectionLengths ==
    (Encoded("packet") /\ Unwrap(codec.wire).ok)
        => SubSeq(Unwrap(codec.wire).bytes, 5, 12)
               = U16(Len(codec.arg.questions)) \o U16(Len(codec.arg.answers))
                     \o U16(Len(codec.arg.authorities)) \o U16(Len(codec.arg.resources))

\* a message without its UNKNOWN records
NotUnknown(r) == r.t # "UNKNOWN"
WithoutUnknown(m) ==
    [m EXCEPT !.answers = SelectSeq(m.answers, NotUnknown),
              !.authorities = SelectSeq(m.authorities, NotUnknown),
              !.resources = SelectSeq(m.resources, NotUnknown)]
\* a header without its four counts
Uncounted(h) ==
    [h EXCEPT !.questions = 0, !.answers = 0, !.authoritative_entries = 0,
              !.resource_entries = 0]

(***************************************************************************)
(* C15.  Decoding what encode has written for a message succeeds and       *)
(* gives the message back without its UNKNOWN records: the id and the     *)
(* flags of the header, and the questions and the records of each section *)
(* in their order.                                                         *)
(***************************************************************************)
C15_DecodeInvertsEncode ==
    RoundTripped("packet")
        => /\ Unwrap(codec.out).st = "ok"
           /\ Uncounted(Unwrap(codec.out).val.header) = Uncounted(codec.arg.header)
           /\ [Unwrap(codec.out).val EXCEPT !.header = 0]
                  = [WithoutUnknown(codec.arg) EXCEPT !.header = 0]

\* the count at the 0-based offset `at` of the header on the wire
WireCount(octets, at) == octets[at + 1] * 256 + octets[at + 2]

(***************************************************************************)
(* C16.  A successful decode returns, in each of the four sections, as     *)
(* many entries as the count of the header announces; octets that hold     *)
(* fewer records than a count announces make decode fail.                  *)
(***************************************************************************)
C16_SectionsHaveAnnouncedLengths ==
    WireDecoded
        => /\ Unwrap(codec.out).st = "ok"
                => LET p == Unwrap(codec.out).val
                   IN  /\ p.header.questions = WireCount(codec.arg.octets, 4)
                       /\ p.header.answers = WireCount(codec.arg.octets, 6)
                       /\ p.header.authoritative_entries = WireCount(codec.arg.octets, 8)
                       /\ p.header.resource_entries = WireCount(codec.arg.octets, 10)
                       /\ Len(p.questions) = p.header.questions
                       /\ Len(p.answers) = p.header.answers
                       /\ Len(p.authorities) = p.header.authoritative_entries
                       /\ Len(p.resources) = p.header.resource_entries
           /\ codec.arg.kind = "short" => Unwrap(codec.out).st = "err"

\* a packet with a question, two answers and an authority record was
\* decoded
C16_Witness ==
    /\ WireDecoded
    /\ Unwrap(codec.out).st = "ok"
    /\ Len(Unwrap(codec.out).val.questions) = 1
    /\ Len(Unwrap(codec.out).val.answers) = 2
    /\ Len(Unwrap(codec.out).val.authorities) = 1

\* the octets a name takes on the wire without compression
NameSize(name) == IF name = <<>> THEN 1 ELSE Len(name) + 2
\* the octets a record takes on the wire; an UNKNOWN record is not written
RecordSize(r) ==
    CASE r.t = "A" -> NameSize(r.domain) + 10 + 4
      [] r.t = "AAAA" -> NameSize(r.domain) + 10 + 16
      [] r.t = "NS" -> NameSize(r.domain) + 10 + NameSize(r.host)
      [] r.t = "CNAME" -> NameSize(r.domain) + 10 + NameSize(r.host)
      [] r.t = "MX" -> NameSize(r.domain) + 10 + 2 + NameSize(r.host)
      [] r.t = "UNKNOWN" -> 0
RECURSIVE SumOf(_, _)
SumOf(Size(_), s) == IF Len(s) = 0 THEN 0 ELSE Size(Head(s)) + SumOf(Size, Tail(s))
QuestionSize(q) == NameSize(q.name) + 4
\* the octets a message needs
WireSize(m) ==
    12 + SumOf(QuestionSize, m.questions) + SumOf(RecordSize, m.answers)
        + SumOf(RecordSize, m.authorities) + SumOf(RecordSize, m.resources)

(***************************************************************************)
(* C17.  Encode either fails or returns a size of at most 512: no write    *)
(* and no back-patch touches an offset at or beyond 512, none touches an   *)
(* offset at or beyond the size returned, and a message that needs more    *)
(* than 512 octets is rejected and never cut short.                        *)
(***************************************************************************)
C17_EncodeStaysWithinBuffer ==
    (Encoded("packet") \/ Encoded("qname") \/ Encoded("header"))
        => LET b == Unwrap(codec.wire)
           IN  /\ b.hi <= 512
               /\ Len(b.bytes) <= 512
               /\ b.ok => b.hi <= Len(b.bytes)
               /\ codec.call = "packet"
                      => /\ WireSize(codec.arg) > 512 => ~b.ok
                         /\ b.ok => Len(b.bytes) >= WireSize(codec.arg)

\* a message of 513 octets was rejected by the write at offset 512, after
\* the back-patch of its last record was prepared at offsets 490 and 491
C17_Witness ==
    /\ Encoded("packet")
    /\ WireSize(codec.arg) = 513
    /\ ~Unwrap(codec.wire).ok
    /\ Unwrap(codec.wire).hi = 512

\* properties of a name, read off its octets
HasLongLabel(name) ==
    \E i \in 1..(Len(name) - 63) : \A j \in i..(i + 63) : name[j] # 46
HasEmptySegment(name) ==
    /\ name # <<>>
    /\ \/ name[1] = 46
       \/ name[Len(name)] = 46
       \/ \E i \in 1..(Len(name) - 1) : name[i] = 46 /\ name[i + 1] = 46

(***************************************************************************)
(* C18.  Name encode rejects a name with a label of more than 63 octets,   *)
(* with more than 255 octets on the wire, or with an empty segment         *)
(* (leading, trailing or doubled dot); the empty name, the root, is        *)
(* accepted and written as the one octet 0x00.                             *)
(***************************************************************************)
C18_NameEncodeRejects ==
    Encoded("qname")
        => /\ (HasLongLabel(codec.arg) \/ NameSize(codec.arg) > 255
                   \/ HasEmptySegment(codec.arg))
                  => ~Unwrap(codec.wire).ok
           /\ codec.arg = <<>>
                  => Unwrap(codec.wire).ok /\ Unwrap(codec.wire).bytes = <<0>>

B(x) == IF x THEN 1 ELSE 0

(***************************************************************************)
(* C19.  For every opcode of four bits, every combination of the eight     *)
(* flags and every named response code, decoding the twelve octets of the  *)
(* encoded header gives the header back, and each field is written to its  *)
(* bit: octet A holds RD, TC, AA, the opcode and QR at bits 0, 1, 2, 3..6  *)
(* and 7, octet B the RCODE, CD, AD, Z and RA at bits 0..3, 4, 5, 6, 7.    *)
(***************************************************************************)
C19_HeaderRoundTrip ==
    RoundTripped("header")
        => LET h == codec.arg
               o == Unwrap(codec.wire).bytes
           IN  /\ Unwrap(codec.out) = IOk(<<>>, h)
               /\ Len(o) = 12
               /\ o[3] = B(h.recursion_desired) + 2 * B(h.truncated_message)
                             + 4 * B(h.authoritative_answer) + 8 * h.opcode
                             + 128 * B(h.response)
               /\ o[4] = ResponseCodeNum(h.rescode) + 16 * B(h.checking_disabled)
                             + 32 * B(h.authed_data) + 64 * B(h.z)
                             + 128 * B(h.recursion_available)

\* a header with opcode 10, Z without AD, TC without AA and rescode
\* REFUSED went through encode and decode
C19_Witness ==
    /\ RoundTripped("header")
    /\ codec.arg.opcode = 10
    /\ codec.arg.z
    /\ ~codec.arg.authed_data
    /\ codec.arg.truncated_message
    /\ ~codec.arg.authoritative_answer
    /\ codec.arg.rescode = "REFUSED"
    /\ Unwrap(codec.out).st = "ok"

(***************************************************************************)
(* C20.  DnsPacket::try_from fails whenever octets remain after the        *)
(* header and the entries its four counts announce, and succeeds only      *)
(* when the whole buffer was consumed.                                     *)
(***************************************************************************)
C20_TrailingOctetsAreRejected ==
    WireDecoded
        => LET parsed == packet(codec.arg.octets, codec.arg.octets)
           IN  /\ (parsed.st = "ok" /\ parsed.rest # <<>>) => Unwrap(codec.out).st = "err"
               /\ Unwrap(codec.out).st = "ok" => (parsed.st = "ok" /\ parsed.rest = <<>>)
               /\ codec.arg.kind = "trailing" => Unwrap(codec.out).st = "err"

\* a packet followed by two more octets was rejected, though the header
\* and every announced entry were decoded
C20_Witness ==
    /\ WireDecoded
    /\ codec.arg.kind = "trailing"
    /\ packet(codec.arg.octets, codec.arg.octets).st = "ok"
    /\ Len(packet(codec.arg.octets, codec.arg.octets).rest) = 2
    /\ Unwrap(codec.out).st = "err"

(***************************************************************************)
(* The upstream socket.  lookup binds it (lib.rs line 105) and owns it     *)
(* until lookup returns (line 121, or the `?` of lines 112..118): an       *)
(* activation holds a socket exactly while it is inside lookup after the   *)
(* bind, which is while it waits in recv_from.                             *)
(***************************************************************************)
HoldsSocket_untilLoopEnds(f) == f.pc \in {"recv", "inner"}

HoldsSocket(f) == f.pc = "recv"

OpenSockets == {i \in 1..Len(stack) : HoldsSocket(stack[i])}

\* queries sent and not yet answered, answers sent and not yet received
Outstanding == (IF IsSome(outbox) THEN 1 ELSE 0) + (IF IsSome(inbox) THEN 1 ELSE 0)

(***************************************************************************)
(* C21.  During one client resolution, nested inner resolutions included,  *)
(* at most one upstream exchange is outstanding and at most one upstream   *)
(* socket is open: a lookup binds only when no activation of the same      *)
(* resolution still holds a socket, and a datagram is in flight only for   *)
(* the activation that holds the socket.                                   *)
(***************************************************************************)
C21_OneExchangeAtATime ==
    /\ Cardinality(OpenSockets) <= 1
    /\ Outstanding <= 1
    /\ (serverPc = "resolving" /\ Outstanding = 1) => OpenSockets = {Len(stack)}
    /\ (stack # <<>> /\ Top.pc = "lookup") => OpenSockets = {}
    /\ \A i \in 1..(Len(stack) - 1) : stack[i].pc = "inner"

\* the nested resolution of an NS name waits for its answer while the outer
\* activation is suspended in the nested call
C21_Witness ==
    /\ Len(stack) = 2
    /\ stack[1].pc = "inner"
    /\ stack[2].pc = "recv"
    /\ IsSome(inbox)

(***************************************************************************)
(* Vocabulary of the properties of name decoding.                          *)
(***************************************************************************)
\* a call of domain_name on given octets has returned, or has ended the
\* process
NameDecoded == codec.call = "name" /\ IsSome(codec.out)

\* the octets domain_name was given
NameInput == From(codec.arg.original, codec.arg.at)

\* The name that starts the octets `input`, followed length octet by
\* length octet from the `at` octets already passed: how it ends ("root":
\* the octet 0x00; "pointer": two octets with the high bits 11; "bad
\* length": a length octet with the high bits 01 or 10, which are the
\* lengths above 63; "runs past": a label longer than the octets left;
\* "cut": the octets end before the name does), the octets it occupies
\* and the target of its pointer.
RECURSIVE Walk(_, _)
Walk(input, at) ==
    IF at >= Len(input) THEN [end |-> "cut"]
    ELSE IF input[at + 1] = 0 THEN [end |-> "root", size |-> at + 1]
    ELSE IF input[at + 1] >= 192
         THEN IF at + 2 > Len(input) THEN [end |-> "cut"]
              ELSE [end |-> "pointer", size |-> at + 2,
                    target |-> (input[at + 1] - 192) * 256 + input[at + 2]]
    ELSE IF input[at + 1] >= 64 THEN [end |-> "bad length"]
    ELSE IF at + 1 + input[at + 1] > Len(input) THEN [end |-> "runs past"]
    ELSE Walk(input, at + 1 + input[at + 1])

\* the octets the returned cursor has advanced by
Advanced == Len(NameInput) - Len(Unwrap(codec.out).rest)

(***************************************************************************)
(* C22.  When name decode returns a name, its cursor has advanced by the   *)
(* octets the name occupies where it starts: up to and including the       *)
(* terminator 0x00, or up to and including the two octets of the pointer   *)
(* the name ends in; what is read at the targets of pointers does not     *)
(* move the cursor.                                                        *)
(***************************************************************************)
C22_CursorPassesTheName ==
    (NameDecoded /\ Unwrap(codec.out).st = "ok"
         /\ Walk(NameInput, 0).end \in {"root", "pointer"})
        => Advanced = Walk(NameInput, 0).size

(***************************************************************************)
(* C23.  Name decode fails with an error when the name holds a length      *)
(* octet with the high bits 01 or 10 (a length above 63) or a label whose  *)
(* length runs past the octets that are there; it does not return the      *)
(* labels that precede the malformed one as the name.                      *)
(***************************************************************************)
C23_BadLabelIsError ==
    (NameDecoded /\ Walk(NameInput, 0).end \in {"bad length", "runs past"})
        => Unwrap(codec.out).st = "err"

(***************************************************************************)
(* C28.  Decoding a name that ends in a pointer whose target lies beyond   *)
(* the end of the buffer returns an error: the decoder does not index the  *)
(* buffer outside its bounds and the process is not aborted.               *)
(***************************************************************************)
C28_PointerBeyondEndIsError ==
    (NameDecoded /\ Walk(NameInput, 0).end = "pointer"
         /\ Walk(NameInput, 0).target >= Len(codec.arg.original))
        => Unwrap(codec.out).st = "err"

(***************************************************************************)
(* C29.  Name decode never reaches its "Impossible state reached" panic:   *)
(* the octet it reads after the scan for the first 0x00 or 0xC0 is 0x00    *)
(* or 0xC0, and when there is no octet left to read it returns an error.   *)
(***************************************************************************)
C29_ImpossibleStateIsUnreachable ==
    NameDecoded
        => LET sel  == min_by_key(take_while_not(NULL_BYTE, NameInput),
                                  take_while_not(JUMP_REQUIRED_FLAG, NameInput))
               next == be_u8(sel.rest)
           IN  /\ Unwrap(codec.out) # ImpossibleState
               /\ next.st = "ok" => next.val \in {NULL_BYTE, JUMP_REQUIRED_FLAG}
               /\ next.st = "err" => Unwrap(codec.out).st = "err"

\* a name of a label and a pointer was decoded: the octet read after the
\* scan was 0xC0, and at the target of the pointer it was 0x00
C29_Witness ==
    /\ NameDecoded
    /\ Unwrap(codec.out).st = "ok"
    /\ Walk(NameInput, 0).end = "pointer"
    /\ Len(Unwrap(codec.out).val) = 3

(***************************************************************************)
(* C24.  Decoding a record whose RDLENGTH does not fit its type fails      *)
(* with an error: an A record whose RDLENGTH is not 4, an AAAA record      *)
(* whose RDLENGTH is not 16, an NS, CNAME or MX record whose name does     *)
(* not end where the RDATA ends.                                           *)
(***************************************************************************)
C24_BadRdLengthIsError ==
    (WireDecoded /\ codec.arg.kind = "rdlength") => Unwrap(codec.out).st = "err"

\* get_resolved_ns has returned
NsResolved == codec.call = "get_resolved_ns" /\ IsSome(codec.out)

\* the i-th authority record of p is an NS record whose owner is a suffix
\* of name, octet by octet
NsOf(p, name, i) ==
    /\ p.authorities[i].t = "NS"
    /\ \E k \in 0..Len(name) : SubSeq(name, k + 1, Len(name)) = p.authorities[i].domain

\* the j-th additional record of p is an A record owned by the target of
\* the i-th authority record
GlueOf(p, i, j) ==
    /\ p.resources[j].t = "A"
    /\ p.resources[j].domain = p.authorities[i].host

\* the least element of a non-empty set of numbers
Least(S) == CHOOSE x \in S : \A y \in S : x <= y

(***************************************************************************)
(* C25.  get_resolved_ns(qname) returns the address of the first           *)
(* additional A record that is owned by the target of the earliest         *)
(* authority NS record whose owner is a literal suffix of qname (the empty *)
(* root owner is one of every qname) and whose target owns such a record,  *)
(* and none when there is no such NS record.  AAAA records and the         *)
(* records of the answer section are not used.                             *)
(***************************************************************************)
C25_ResolvedNsIsFirstGlue ==
    NsResolved
        => LET p    == codec.arg.p
               name == codec.arg.name
               glued == {i \in 1..Len(p.authorities) :
                            /\ NsOf(p, name, i)
                            /\ \E j \in 1..Len(p.resources) : GlueOf(p, i, j)}
           IN  IF glued = {} THEN Unwrap(codec.out) = None
               ELSE Unwrap(codec.out)
                        = Some(p.resources[Least({j \in 1..Len(p.resources) :
                                                     GlueOf(p, Least(glued), j)})].addr)

\* the first NS record for the name has no glue but an AAAA record and the
\* second has an A record, which is returned although the answer section
\* holds an A record of the same owner
C25_Witness ==
    /\ NsResolved
    /\ codec.arg.name = NameAC
    /\ codec.arg.p.authorities = <<RecNS(<<>>, NameNC, 60), RecNS(<<46, 99>>, NameMC, 60)>>
    /\ codec.arg.p.resources = <<RecAAAA(NameNC, Ip6, 60), RecA(NameMC, Ip2, 60)>>
    /\ Len(codec.arg.p.answers) = 1
    /\ Unwrap(codec.out) = Some(Ip2)

\* the records of a section that the encoder writes
Written(section) == SelectSeq(section, NotUnknown)

(***************************************************************************)
(* C26.  In every datagram the server sends back, the four counts of the   *)
(* header are the numbers of questions and records that were written in    *)
(* the four sections, and the codec's own decoder decodes the datagram;    *)
(* this holds as well when the engine's output holds UNKNOWN records,      *)
(* which the encoder does not write.                                       *)
(***************************************************************************)
C26_ReplyCountsMatchSections ==
    IsSome(clientOut)
        => LET o == Unwrap(clientOut).data
               r == Unwrap(response)
           IN  /\ WireCount(o, 4) = Len(r.questions)
               /\ WireCount(o, 6) = Len(Written(r.answers))
               /\ WireCount(o, 8) = Len(Written(r.authorities))
               /\ WireCount(o, 10) = Len(Written(r.resources))
               /\ DnsPacket_try_from(o).st = "ok"

\* resolve has returned the response to a successful engine run
ReturnedOk == IsSome(ret) /\ Unwrap(ret).ok /\ IsSome(response)

(***************************************************************************)
(* C27.  The response resolve returns for a successful engine run has the  *)
(* rescode NOERROR, whatever the rescode of the engine's output is, and    *)
(* so has the datagram the server sends: an engine output with NXDOMAIN    *)
(* or REFUSED reaches the client as NOERROR.                               *)
(***************************************************************************)
C27_RescodeIsNotCopied ==
    ReturnedOk
        => /\ Unwrap(response).header.rescode = "NOERROR"
           /\ IsSome(clientOut) => Unwrap(clientOut).data[4] % 16 = ResponseCodeNum("NOERROR")

\* the engine's output was a name error and the reply was sent
C27_Witness ==
    /\ ReturnedOk
    /\ Unwrap(ret).val.header.rescode = "NXDOMAIN"
    /\ Len(Unwrap(ret).val.answers) = 1
    /\ IsSome(clientOut)

=============================================================================
